---- MODULE Spec2Model ----
(***************************************************************************)
(* A model of src/lib.rs, the wasm binding of a colour quantizer and its   *)
(* PNG helpers.                                                            *)
(*                                                                         *)
(* Two specifications share the variables:                                 *)
(*   Spec           the two free PNG helper functions, decode_png_to_rgba  *)
(*                  and encode_palette_to_png.  They are pure: they read   *)
(*                  nothing but their arguments, so Init draws one call    *)
(*                  (req) and the actions apply the function to it; a      *)
(*                  successful encode may be followed by a decode of the   *)
(*                  bytes it returned.                                     *)
(*   QuantizerSpec  the two objects, ImageQuantizer (attr) and             *)
(*                  QuantizationResult (result), and their methods, called *)
(*                  in any order with any arguments.                       *)
(*                                                                         *)
(* The png and imagequant crates are not part of lib.rs.  Each call into   *)
(* them is modelled, at the line that makes the call, by what the crate    *)
(* returns to lib.rs there.  Where lib.rs itself does not trust the answer *)
(* (the index values and the length of the remapped buffer, which it       *)
(* checks or patches), the answer is an arbitrary value.                   *)
(*                                                                         *)
(* u32 and usize values are kept as little-endian sequences of base-256    *)
(* limbs, so that a product of two 32-bit numbers is computed exactly and  *)
(* its wrap-around at 2^32 is the real one.                                *)
(***************************************************************************)
EXTENDS Integers, Sequences, FiniteSets, TLC

VARIABLES
    build,   \* the build profile: whether integer overflow panics or wraps
    attr,    \* ImageQuantizer.attr: the configuration
    result,  \* the QuantizationResult object, once quantizeImage returned one
    req,     \* the call to a PNG helper that Spec applies
    last     \* the last call made: its arguments and what it returned

vars == <<build, attr, result, req, last>>

(***************************************************************************)
(* Fixed-width integer arithmetic.                                         *)
(***************************************************************************)
LimbBase == 256
U32Limbs == 4
UsizeLimbs == 4

Min(a, b) == IF a < b THEN a ELSE b

RECURSIVE ToLimbs(_, _)
\* the k low limbs of the natural number n
ToLimbs(n, k) ==
    IF k = 0 THEN <<>> ELSE <<n % LimbBase>> \o ToLimbs(n \div LimbBase, k - 1)

Digit(a, i) == IF i >= 1 /\ i <= Len(a) THEN a[i] ELSE 0

RECURSIVE ColumnSum(_, _, _, _)
\* the sum of a[i] * b[k + 1 - i] for i in 1..n
ColumnSum(a, b, k, n) ==
    IF n = 0 THEN 0
    ELSE IF k + 1 - n > Len(b) THEN 0
    ELSE a[n] * b[k + 1 - n] + ColumnSum(a, b, k, n - 1)

RECURSIVE Propagate(_, _, _, _, _)
Propagate(a, b, k, carry, n) ==
    IF k > n THEN <<>>
    ELSE LET s == ColumnSum(a, b, k, Min(k, Len(a))) + carry
         IN  <<s % LimbBase>> \o Propagate(a, b, k + 1, s \div LimbBase, n)

\* the exact product of two limb sequences, Len(a) + Len(b) limbs long
MulLimbs(a, b) == Propagate(a, b, 1, 0, Len(a) + Len(b))

IsZero(a) == \A i \in 1..Len(a) : a[i] = 0

\* a * b on a machine word of n limbs: the wrapped value, and whether the
\* exact product did not fit
WordMul(a, b, n) ==
    LET p == MulLimbs(a, b)
    IN  [val |-> SubSeq(p, 1, n), overflow |-> ~IsZero(SubSeq(p, n + 1, Len(p)))]

\* `x * y` on u32 operands (lib.rs:55, 127, 144, 175, 192, 262)
U32Mul(a, b) == WordMul(a, b, U32Limbs)

\* `x as usize`: zero-extension (or the same word) on the wasm32 target
AsUsize(a) == [i \in 1..UsizeLimbs |-> Digit(a, i)]

\* `f as u8` for an integer-valued f64: a saturating cast
SaturateU8(i) == IF i < 0 THEN 0 ELSE IF i > 255 THEN 255 ELSE i

(***************************************************************************)
(* The widths and heights the model calls the functions with.              *)
(***************************************************************************)
MaxDim == 2     \* the PNG helpers: widths and heights 0..MaxDim
MaxPixels == 1  \* the quantizer: images of up to MaxPixels pixels

\* 2^16: the square of it is 2^32, which a u32 holds as 0
BigDim == 256 * 256

\* 2^15: the square of it times 4 is 2^32
HalfBigDim == 128 * 256

Dims == (0..MaxDim) \cup {BigDim}

Widths == (0..MaxPixels) \cup {HalfBigDim}
Heights == {0, 1, HalfBigDim}

DimValues == Dims \cup Widths \cup Heights

\* `width * height` on u32, worked out once for every pair the model draws
WidthTimesHeight ==
    [width \in DimValues, height \in DimValues |->
        U32Mul(ToLimbs(width, U32Limbs), ToLimbs(height, U32Limbs))]

\* `width * height * 4` on u32: the second multiplication wraps as well
WidthTimesHeightTimes4 ==
    [width \in DimValues, height \in DimValues |->
        LET wh4 == U32Mul(WidthTimesHeight[width, height].val, ToLimbs(4, U32Limbs))
        IN  [val |-> wh4.val,
             overflow |-> WidthTimesHeight[width, height].overflow \/ wh4.overflow]]

\* width * height as the integer it is, of twice as many limbs
ExactProduct ==
    [width \in DimValues, height \in DimValues |->
        MulLimbs(ToLimbs(width, U32Limbs), ToLimbs(height, U32Limbs))]

(***************************************************************************)
(* Sequences.                                                              *)
(***************************************************************************)
RECURSIVE Chunks(_, _)
\* slice::chunks(n): consecutive pieces of n elements, the last one shorter
Chunks(s, n) ==
    IF Len(s) = 0 THEN <<>>
    ELSE <<SubSeq(s, 1, Min(n, Len(s)))>> \o Chunks(SubSeq(s, Min(n, Len(s)) + 1, Len(s)), n)

RECURSIVE ChunksExact(_, _)
\* slice::chunks_exact(n): the pieces of exactly n elements, the remainder dropped
ChunksExact(s, n) ==
    IF Len(s) < n THEN <<>>
    ELSE <<SubSeq(s, 1, n)>> \o ChunksExact(SubSeq(s, n + 1, Len(s)), n)

RECURSIVE Flatten(_)
Flatten(ss) == IF Len(ss) = 0 THEN <<>> ELSE Head(ss) \o Flatten(Tail(ss))

Alphas(colors) == [i \in 1..Len(colors) |-> colors[i][4]]

IsBelowOpaque(a) == a < 255

(***************************************************************************)
(* Values returned to the caller.                                          *)
(***************************************************************************)
\* a PNG file, by its chunks: IHDR (colorType, bitDepth, width, height),
\* PLTE, tRNS and the scanlines that IDAT holds
NoPng ==
    [signature |-> FALSE, colorType |-> "None", bitDepth |-> 0, width |-> 0,
     height |-> 0, plte |-> <<>>, hasTrns |-> FALSE, trns |-> <<>>, rows |-> <<>>]

NoOut == [png |-> NoPng, data |-> <<>>, width |-> 0, height |-> 0]

\* Err(JsValue::from_str(msg)): no value is returned
Err(msg) == [status |-> "err", msg |-> msg, out |-> NoOut]

\* an arithmetic overflow with overflow checks on: the call traps
Panic == [status |-> "panic", msg |-> "attempt to multiply with overflow", out |-> NoOut]

Ok(out) == [status |-> "ok", msg |-> "", out |-> out]

(***************************************************************************)
(* encode_palette_to_png                                                   *)
(***************************************************************************)
PngMaxPalette == 256

\* the entries of the JS palette the loop stops at: no array, or an array of
\* fewer than 4 items
BadEntries(palette) ==
    {i \in 1..Len(palette) : ~palette[i].isArray \/ Len(palette[i].items) < 4}

\* the loop over the JS palette: the first entry that is no array, or an
\* array of fewer than 4 items, ends the call; every channel is cast to u8
ParsePalette(palette) ==
    IF BadEntries(palette) # {}
    THEN LET i == CHOOSE j \in BadEntries(palette) : \A k \in BadEntries(palette) : j <= k
         IN  [err |-> IF ~palette[i].isArray THEN "Invalid palette format"
                      ELSE "Invalid palette color format",
              colors |-> <<>>]
    ELSE [err |-> "",
          colors |-> [i \in 1..Len(palette) |->
                         <<SaturateU8(palette[i].items[1]), SaturateU8(palette[i].items[2]),
                           SaturateU8(palette[i].items[3]), SaturateU8(palette[i].items[4])>>]]

\* palette_rgb: three bytes for every colour, in palette order
PaletteRgb(colors) ==
    [j \in 1..(3 * Len(colors)) |-> colors[((j - 1) \div 3) + 1][((j - 1) % 3) + 1]]

\* (changed) the alpha of every colour is pushed, opaque or not
TransparencyOfEveryColor(colors) == Alphas(colors)

\* transparency: the alpha of every colour whose alpha is below 255, in
\* palette order; the opaque colours in between are skipped
Transparency(colors) == SelectSeq(Alphas(colors), IsBelowOpaque)

\* (changed) the encoder is left at the grayscale colour type
GrayscaleColorType == "Grayscale"

\* encoder.set_color(ColorType::Indexed)
EncoderColorType == "Indexed"

\* encoder.set_depth(BitDepth::Eight)
EncoderBitDepth == 8

\* encoder.write_header(): the png encoder refuses a zero width or height
WriteHeaderOk(width, height) == width # 0 /\ height # 0

\* writer.write_image_data(&indices): the png encoder compares the buffer
\* with row length * height, computed in usize, and writes one scanline per
\* row of `width` bytes
ImageDataSize(width, height) ==
    [val |-> SubSeq(ExactProduct[width, height], 1, UsizeLimbs),
     overflow |-> ~IsZero(SubSeq(ExactProduct[width, height], UsizeLimbs + 1,
                                 Len(ExactProduct[width, height])))]

ImageRows(indices, width) == Chunks(indices, width)

EncodePaletteToPng(indices, palette, width, height, overflowChecks) ==
    LET expected == WidthTimesHeight[width, height]
        parsed == ParsePalette(palette)
        palette_colors == parsed.colors
        transparency == Transparency(palette_colors)
        data_size == ImageDataSize(width, height)
        png_data ==
            [signature |-> TRUE, colorType |-> EncoderColorType,
             bitDepth |-> EncoderBitDepth, width |-> width, height |-> height,
             plte |-> PaletteRgb(palette_colors),
             hasTrns |-> Len(transparency) # 0, trns |-> transparency,
             rows |-> ImageRows(indices, width)]
    IN  IF expected.overflow /\ overflowChecks THEN Panic
        ELSE IF ToLimbs(Len(indices), UsizeLimbs) # AsUsize(expected.val)
             THEN Err("Palette indices length doesn't match width * height")
        ELSE IF parsed.err # "" THEN Err(parsed.err)
        ELSE IF Len(palette_colors) > PngMaxPalette
             THEN Err("Palette too large for PNG (max 256 colors)")
        ELSE IF ~WriteHeaderOk(width, height) THEN Err("Failed to write PNG header")
        ELSE IF data_size.overflow /\ overflowChecks THEN Panic
        ELSE IF ToLimbs(Len(indices), UsizeLimbs) # data_size.val
             THEN Err("Failed to write PNG data")
        ELSE Ok([png |-> png_data, data |-> <<>>, width |-> 0, height |-> 0])

(***************************************************************************)
(* decode_png_to_rgba                                                      *)
(***************************************************************************)
ColorTypes == {"Grayscale", "Rgb", "Indexed", "GrayscaleAlpha", "Rgba"}

\* the bit depths the PNG format allows for each colour type
BitDepths(colorType) ==
    CASE colorType = "Grayscale" -> {1, 2, 4, 8, 16}
      [] colorType = "Indexed" -> {1, 2, 4, 8}
      [] OTHER -> {8, 16}

Samples(colorType) ==
    CASE colorType = "Rgba" -> 4
      [] colorType = "Rgb" -> 3
      [] colorType = "GrayscaleAlpha" -> 2
      [] OTHER -> 1

\* the bytes of one scanline as the decoder hands it out untransformed
\* (Decoder::new sets no transformation): samples are packed below 8 bits
\* and take two bytes at 16 bits
RowBytes(width, colorType, bitDepth) ==
    (width * Samples(colorType) * bitDepth + 7) \div 8

\* decoder.read_info(): the signature and the header must be well-formed
ReadInfoOk(png) ==
    /\ png.signature
    /\ png.colorType \in ColorTypes
    /\ png.bitDepth \in BitDepths(png.colorType)
    /\ png.width # 0
    /\ png.height # 0

\* reader.next_frame(&mut buf): every scanline of the frame must be there
NextFrameOk(png) ==
    /\ Len(png.rows) = png.height
    /\ \A r \in 1..Len(png.rows) :
           Len(png.rows[r]) = RowBytes(png.width, png.colorType, png.bitDepth)

Gray4(gray, alpha) == <<gray, gray, gray, alpha>>

\* (changed) an indexed frame is taken for a grayscale one
ConvertIndexedAsGray(colorType, buf) ==
    CASE colorType = "Rgba" -> [ok |-> TRUE, rgba |-> buf]
      [] colorType = "Rgb" ->
            [ok |-> TRUE,
             rgba |-> Flatten([i \in 1..Len(ChunksExact(buf, 3)) |->
                                  ChunksExact(buf, 3)[i] \o <<255>>])]
      [] colorType = "GrayscaleAlpha" ->
            [ok |-> TRUE,
             rgba |-> Flatten([i \in 1..Len(ChunksExact(buf, 2)) |->
                                  Gray4(ChunksExact(buf, 2)[i][1], ChunksExact(buf, 2)[i][2])])]
      [] OTHER ->
            [ok |-> TRUE, rgba |-> Flatten([i \in 1..Len(buf) |-> Gray4(buf[i], 255)])]

\* `match info.color_type`: the frame's bytes turned into RGBA, or no
\* conversion for any other colour type
ConvertToRgba(colorType, buf) ==
    CASE colorType = "Rgba" -> [ok |-> TRUE, rgba |-> buf]
      [] colorType = "Rgb" ->
            [ok |-> TRUE,
             rgba |-> Flatten([i \in 1..Len(ChunksExact(buf, 3)) |->
                                  ChunksExact(buf, 3)[i] \o <<255>>])]
      [] colorType = "GrayscaleAlpha" ->
            [ok |-> TRUE,
             rgba |-> Flatten([i \in 1..Len(ChunksExact(buf, 2)) |->
                                  Gray4(ChunksExact(buf, 2)[i][1], ChunksExact(buf, 2)[i][2])])]
      [] colorType = "Grayscale" ->
            [ok |-> TRUE, rgba |-> Flatten([i \in 1..Len(buf) |-> Gray4(buf[i], 255)])]
      [] OTHER -> [ok |-> FALSE, rgba |-> <<>>]

DecodePngToRgba(png) ==
    IF ~ReadInfoOk(png) THEN Err("Failed to read PNG info")
    ELSE IF ~NextFrameOk(png) THEN Err("Failed to read PNG frame")
    ELSE LET buf == Flatten(png.rows)
             rgba_buf == ConvertToRgba(png.colorType, buf)
         IN  IF ~rgba_buf.ok THEN Err("Unsupported PNG color type")
             ELSE Ok([png |-> NoPng, data |-> rgba_buf.rgba,
                      width |-> png.width, height |-> png.height])

(***************************************************************************)
(* The calls the model makes.                                              *)
(***************************************************************************)
MaxIndices == 2     \* index buffers of up to MaxIndices bytes
MaxPaletteLen == 2  \* palettes of 1..MaxPaletteLen colours, and one too large

\* index values: every palette has a value in range and one out of range
IndexValues == 0..MaxPaletteLen

SeqsUpTo(S, n) == UNION {[1..k -> S] : k \in 0..n}

IndexBuffers == SeqsUpTo(IndexValues, MaxIndices)

AlphaValues == {0, 128, 255}

\* a JS palette entry: [r, g, b, a], the colour fixed by its place
JsColor(i, a) == [isArray |-> TRUE, items |-> <<10 * i, 20 * i, 30 * i, a>>]

JsPalettes ==
    UNION {{[i \in 1..k |-> JsColor(i, alphas[i])] : alphas \in [1..k -> AlphaValues]} :
           k \in 1..MaxPaletteLen}

\* palettes the loop over the entries rejects, one with channels that are
\* no bytes, and one with a colour too many
OddPalettes ==
    {<<JsColor(1, 255), [isArray |-> FALSE, items |-> <<>>]>>,
     <<JsColor(1, 255), [isArray |-> TRUE, items |-> <<1, 2, 3>>]>>,
     <<[isArray |-> TRUE, items |-> <<300, 0 - 5, 0, 300>>]>>,
     [i \in 1..(PngMaxPalette + 1) |-> JsColor(0, 255)]}

EncodeRequests ==
    {[op |-> "encode", indices |-> ix, palette |-> p, width |-> w, height |-> h,
      png |-> NoPng, fromEncode |-> FALSE] :
        ix \in IndexBuffers, p \in JsPalettes \cup OddPalettes, w \in Dims, h \in Dims}

\* the bytes of scanline r of a PNG file that comes from elsewhere
ForeignRow(n, r) == [i \in 1..n |-> (85 * r + 37 * i) % 256]

ForeignPng(colorType, bitDepth, width, height, rowsPresent) ==
    [signature |-> TRUE, colorType |-> colorType, bitDepth |-> bitDepth,
     width |-> width, height |-> height,
     plte |-> IF colorType = "Indexed" THEN <<0, 0, 0, 255, 255, 255>> ELSE <<>>,
     hasTrns |-> FALSE, trns |-> <<>>,
     rows |-> [r \in 1..rowsPresent |->
                  ForeignRow(RowBytes(width, colorType, bitDepth), r)]]

\* well-formed files of every colour type and bit depth, the same files cut
\* short by one scanline, and bytes that are no PNG file
ForeignPngs ==
    UNION {{ForeignPng(d[1], bd, w, d[2], n) :
               bd \in BitDepths(d[1]), w \in 1..MaxDim, n \in {d[2] - 1, d[2]}} :
           d \in ColorTypes \X (1..MaxDim)}
    \cup {NoPng}

DecodeRequests ==
    {[op |-> "decode", indices |-> <<>>, palette |-> <<>>, width |-> 0, height |-> 0,
      png |-> png, fromEncode |-> FALSE] : png \in ForeignPngs}

NoRequest ==
    [op |-> "none", indices |-> <<>>, palette |-> <<>>, width |-> 0, height |-> 0,
     png |-> NoPng, fromEncode |-> FALSE]

Call(op, args, returned) ==
    [op |-> op, args |-> args, status |-> returned.status, msg |-> returned.msg,
     out |-> returned.out, remapped |-> <<>>]

NoCall == Call("none", NoRequest, Err(""))

\* debug and release profiles: `overflow-checks` on or off
Builds == [overflowChecks : BOOLEAN]

\* Attributes::new()
DefaultAttr ==
    [speed |-> 4, qualityMin |-> 0, qualityTarget |-> 100, maxColors |-> 256,
     minPosterization |-> 0]

NoResult == [exists |-> FALSE, palette |-> <<>>, width |-> 0, height |-> 0]

(***************************************************************************)
(* Spec: the PNG helpers.                                                  *)
(***************************************************************************)
Init ==
    /\ build \in Builds
    /\ attr = DefaultAttr
    /\ result = NoResult
    /\ req \in EncodeRequests \cup DecodeRequests
    /\ last = NoCall

\* encode_palette_to_png(palette_indices, palette, width, height)
EncodePalette ==
    /\ last.op = "none"
    /\ req.op = "encode"
    /\ last' = Call("encode", req,
                    EncodePaletteToPng(req.indices, req.palette, req.width, req.height,
                                       build.overflowChecks))
    /\ UNCHANGED <<build, attr, result, req>>

\* decode_png_to_rgba(png_bytes) on a file from elsewhere
DecodePng ==
    /\ last.op = "none"
    /\ req.op = "decode"
    /\ last' = Call("decode", req, DecodePngToRgba(req.png))
    /\ UNCHANGED <<build, attr, result, req>>

\* decode_png_to_rgba(png_bytes) on the bytes encode_palette_to_png returned
DecodeEncoded ==
    /\ last.op = "encode"
    /\ last.status = "ok"
    /\ last' = Call("decode", [req EXCEPT !.png = last.out.png, !.fromEncode = TRUE],
                    DecodePngToRgba(last.out.png))
    /\ UNCHANGED <<build, attr, result, req>>

Next == EncodePalette \/ DecodePng \/ DecodeEncoded

Spec == Init /\ [][Next]_vars

(***************************************************************************)
(* ImageQuantizer: the configuration setters.  The imagequant crate checks *)
(* the range of the value it is handed; lib.rs maps its error to a string. *)
(***************************************************************************)
TruncDiv(a, b) == IF a >= 0 THEN a \div b ELSE 0 - ((0 - a) \div b)

\* `posterization as u8` on an f64 kept in tenths: NaN gives 0, the fraction
\* is cut off, and what is left saturates at 0 and 255
F64AsU8(x) == IF x.nan THEN 0 ELSE SaturateU8(TruncDiv(x.tenths, 10))

\* self.attr.set_speed(speed)
SetSpeedReturns(speed) ==
    IF speed \in 1..10 THEN Ok(NoOut) ELSE Err("Failed to set speed: ValueOutOfRange")

\* self.attr.set_quality(min, target)
SetQualityReturns(min, target) ==
    IF target > 100 \/ target < min
    THEN Err("Failed to set quality: ValueOutOfRange") ELSE Ok(NoOut)

\* self.attr.set_max_colors(colors)
SetMaxColorsReturns(colors) ==
    IF colors \in 2..256 THEN Ok(NoOut) ELSE Err("Failed to set max colors: ValueOutOfRange")

\* self.attr.set_min_posterization(posterization as u8)
SetPosterizationReturns(posterization) ==
    IF F64AsU8(posterization) > 4
    THEN Err("Failed to set posterization: ValueOutOfRange") ELSE Ok(NoOut)

(***************************************************************************)
(* quantizeImage, remapImage, getPaletteIndices                            *)
(***************************************************************************)
RECURSIVE LimbsLess(_, _, _)
\* a < b for limb sequences, compared from limb i down
LimbsLess(a, b, i) ==
    IF i = 0 THEN FALSE
    ELSE IF Digit(a, i) # Digit(b, i) THEN Digit(a, i) < Digit(b, i)
    ELSE LimbsLess(a, b, i - 1)

\* `(width * height * 4) as usize`: two u32 multiplications, each of which
\* wraps, or panics when overflow checks are on
ExpectedRgbaLen(width, height) ==
    [val |-> AsUsize(WidthTimesHeightTimes4[width, height].val),
     overflow |-> WidthTimesHeightTimes4[width, height].overflow]

\* `(width * height) as usize`
ExpectedIndexLen(width, height) ==
    [val |-> AsUsize(WidthTimesHeight[width, height].val),
     overflow |-> WidthTimesHeight[width, height].overflow]

\* Image::new / Image::new_borrowed: imagequant refuses a zero width or
\* height and a pixel buffer shorter than width * height
ImageNewOk(pixels, width, height) ==
    LET need == ExactProduct[width, height]
    IN  /\ width # 0
        /\ height # 0
        /\ ~LimbsLess(ToLimbs(pixels, Len(need)), need, Len(need))

\* the loop over the remapped indices: the palette colour of every index, and
\* opaque black for an index the palette does not have
IndicesToRgba(indices, palette) ==
    Flatten([i \in 1..Len(indices) |->
                IF indices[i] < Len(palette) THEN palette[indices[i] + 1]
                ELSE <<0, 0, 0, 255>>])

\* the part of the three methods that is the same: the length check, the
\* image, and `after`, what the rest of the method returns
WithImage(dataLen, width, height, overflowChecks, after) ==
    LET expected == ExpectedRgbaLen(width, height)
    IN  IF expected.overflow /\ overflowChecks THEN Panic
        ELSE IF ToLimbs(dataLen, UsizeLimbs) # expected.val
             THEN Err("Image data length doesn't match width * height * 4")
        ELSE IF ~ImageNewOk(dataLen \div 4, width, height)
             THEN Err("Failed to create image")
        ELSE after

\* self.attr.quantize(&mut img): a palette, or no palette of the quality asked
QuantizeImageReturns(dataLen, width, height, overflowChecks, quantized) ==
    WithImage(dataLen, width, height, overflowChecks,
              IF quantized.ok THEN Ok(NoOut)
              ELSE Err("Failed to quantize image: QualityTooLow"))

\* the check of the number of indices that both remapping methods make
IndexCountOk(indices, width, height) ==
    ToLimbs(Len(indices), UsizeLimbs) = ExpectedIndexLen(width, height).val

RemapImageReturns(dataLen, width, height, overflowChecks, palette, indices) ==
    WithImage(dataLen, width, height, overflowChecks,
              IF ~IndexCountOk(indices, width, height)
              THEN Err("Index data length mismatch")
              ELSE Ok([png |-> NoPng, data |-> IndicesToRgba(indices, palette),
                       width |-> 0, height |-> 0]))

GetPaletteIndicesReturns(dataLen, width, height, overflowChecks, indices) ==
    WithImage(dataLen, width, height, overflowChecks,
              IF ~IndexCountOk(indices, width, height)
              THEN Err("Index data length mismatch")
              ELSE Ok([png |-> NoPng, data |-> indices, width |-> 0, height |-> 0]))

(***************************************************************************)
(* QuantizerSpec: the objects and their methods.                           *)
(***************************************************************************)
MaxQuantColors == 2  \* palettes of up to MaxQuantColors colours

\* lengths of the RGBA buffer: whole pixels, and one that is not
DataLens == {4 * k : k \in 0..MaxPixels} \cup {5}

SpeedInputs == {0, 1, 11}
QualityInputs == {50, 101}
MaxColorsInputs == {0, 1, 2, 257}
PosterizationInputs ==
    {[nan |-> FALSE, tenths |-> t] : t \in {0 - 10, 5, 27, 50, 3000}}
    \cup {[nan |-> TRUE, tenths |-> 0]}

QuantColor(i) == <<60 * i, 0, 255 - 60 * i, 255>>

QuantPalettes == {[i \in 1..k |-> QuantColor(i)] : k \in 1..MaxQuantColors}

\* what self.attr.quantize() hands back: a palette of at most max_colors
\* colours or, when a minimum quality is set, the error that it was not met
Quantized(maxColors, qualityMin) ==
    {[ok |-> TRUE, palette |-> p] : p \in {q \in QuantPalettes : Len(q) <= maxColors}}
    \cup (IF qualityMin > 0 THEN {[ok |-> FALSE, palette |-> <<>>]} ELSE {})

\* what imagequant's remapped() hands back: lib.rs checks the length and
\* patches the values, so neither is taken for granted
RemapOutputs == SeqsUpTo(0..MaxQuantColors, MaxPixels)

\* self.result.remapped(&mut img) is reached, and hands indices back, only
\* when the length check and the image before it passed
Remapped(dataLen, width, height, overflowChecks) ==
    IF WithImage(dataLen, width, height, overflowChecks, Ok(NoOut)).status = "ok"
    THEN RemapOutputs ELSE {<<>>}

MethodArgs(a, b, f, dataLen, width, height) ==
    [a |-> a, b |-> b, f |-> f, dataLen |-> dataLen, width |-> width, height |-> height]

NoF64 == [nan |-> TRUE, tenths |-> 0]

QuantizerInit ==
    /\ build \in Builds
    /\ attr = DefaultAttr
    /\ result = NoResult
    /\ req = NoRequest
    /\ last = NoCall

\* setSpeed(speed)
SetSpeed ==
    \E speed \in SpeedInputs :
        /\ last' = Call("setSpeed", MethodArgs(speed, 0, NoF64, 0, 0, 0),
                        SetSpeedReturns(speed))
        /\ attr' = IF SetSpeedReturns(speed).status = "ok"
                   THEN [attr EXCEPT !.speed = speed] ELSE attr
        /\ UNCHANGED <<build, result, req>>

\* setQuality(min, target)
SetQuality ==
    \E min \in QualityInputs, target \in QualityInputs :
        /\ last' = Call("setQuality", MethodArgs(min, target, NoF64, 0, 0, 0),
                        SetQualityReturns(min, target))
        /\ attr' = IF SetQualityReturns(min, target).status = "ok"
                   THEN [attr EXCEPT !.qualityMin = min, !.qualityTarget = target]
                   ELSE attr
        /\ UNCHANGED <<build, result, req>>

\* setMaxColors(colors)
SetMaxColors ==
    \E colors \in MaxColorsInputs :
        /\ last' = Call("setMaxColors", MethodArgs(colors, 0, NoF64, 0, 0, 0),
                        SetMaxColorsReturns(colors))
        /\ attr' = IF SetMaxColorsReturns(colors).status = "ok"
                   THEN [attr EXCEPT !.maxColors = colors] ELSE attr
        /\ UNCHANGED <<build, result, req>>

\* setPosterization(posterization)
SetPosterization ==
    \E posterization \in PosterizationInputs :
        /\ last' = Call("setPosterization", MethodArgs(0, 0, posterization, 0, 0, 0),
                        SetPosterizationReturns(posterization))
        /\ attr' = IF SetPosterizationReturns(posterization).status = "ok"
                   THEN [attr EXCEPT !.minPosterization = F64AsU8(posterization)]
                   ELSE attr
        /\ UNCHANGED <<build, result, req>>

\* quantizeImage(rgba_data, width, height): imagequant picks the palette, of
\* at most max_colors colours, or finds the minimum quality out of reach
QuantizeImage ==
    \E dataLen \in DataLens, width \in Widths, height \in Heights,
       quantized \in Quantized(attr.maxColors, attr.qualityMin) :
        LET returned ==
                QuantizeImageReturns(dataLen, width, height, build.overflowChecks, quantized)
        IN  /\ last' = Call("quantizeImage", MethodArgs(0, 0, NoF64, dataLen, width, height),
                            returned)
            /\ result' = IF returned.status = "ok"
                         THEN [exists |-> TRUE, palette |-> quantized.palette,
                               width |-> width, height |-> height]
                         ELSE result
            /\ UNCHANGED <<build, attr, req>>

\* remapImage(rgba_data, width, height)
RemapImage ==
    /\ result.exists
    /\ \E dataLen \in DataLens, width \in Widths, height \in Heights :
         \E indices \in Remapped(dataLen, width, height, build.overflowChecks) :
           /\ last' = [Call("remapImage", MethodArgs(0, 0, NoF64, dataLen, width, height),
                            RemapImageReturns(dataLen, width, height, build.overflowChecks,
                                              result.palette, indices))
                       EXCEPT !.remapped = indices]
           /\ UNCHANGED <<build, attr, result, req>>

\* getPaletteIndices(rgba_data, width, height)
GetPaletteIndices ==
    /\ result.exists
    /\ \E dataLen \in DataLens, width \in Widths, height \in Heights :
         \E indices \in Remapped(dataLen, width, height, build.overflowChecks) :
           /\ last' = [Call("getPaletteIndices",
                            MethodArgs(0, 0, NoF64, dataLen, width, height),
                            GetPaletteIndicesReturns(dataLen, width, height,
                                                     build.overflowChecks, indices))
                       EXCEPT !.remapped = indices]
           /\ UNCHANGED <<build, attr, result, req>>

QuantizerNext ==
    \/ SetSpeed
    \/ SetQuality
    \/ SetMaxColors
    \/ SetPosterization
    \/ QuantizeImage
    \/ RemapImage
    \/ GetPaletteIndices

QuantizerSpec == QuantizerInit /\ [][QuantizerNext]_vars

(***************************************************************************)
(* The claims.                                                             *)
(***************************************************************************)
\* the alpha values of a JS palette as the caller wrote them
RawAlphas(palette) == [i \in 1..Len(palette) |-> palette[i].items[4]]

\* a palette of pixels: every entry four channels, every channel a byte
IsPixelPalette(palette) ==
    \A i \in 1..Len(palette) :
        /\ palette[i].isArray
        /\ Len(palette[i].items) = 4
        /\ \A c \in 1..4 : palette[i].items[c] \in 0..255

\* the buffer holds as many elements as width * height really is
LenIsProduct(len, width, height) ==
    ToLimbs(len, Len(ExactProduct[width, height])) = ExactProduct[width, height]

\* what C1 takes as input: a palette of at most 256 pixels and as many
\* indices as the image has pixels, each below the palette length
ValidEncodeInput(args) ==
    /\ IsPixelPalette(args.palette)
    /\ Len(args.palette) <= 256
    /\ LenIsProduct(Len(args.indices), args.width, args.height)
    /\ \A i \in 1..Len(args.indices) : args.indices[i] < Len(args.palette)

EncodeReturned == last.op = "encode" /\ last.status = "ok"

DecodedEncoded == last.op = "decode" /\ last.args.fromEncode

\* C1, as claimed: decode_png_to_rgba on the bytes encode_palette_to_png
\* returned for a valid input succeeds and gives the index buffer back.
C1_DecodeReturnsIndices ==
    (DecodedEncoded /\ ValidEncodeInput(last.args))
        => (last.status = "ok" /\ last.out.data = last.args.indices)

\* C1, as amended: the bytes encode_palette_to_png returns for a valid input
\* are an 8-bit indexed image whose scanlines, put end to end, are the index
\* buffer byte for byte; decode_png_to_rgba refuses them as an unsupported
\* colour type and gives no buffer back.
C1_EncodedKeepsIndices ==
    (DecodedEncoded /\ ValidEncodeInput(last.args))
        => /\ last.args.png.colorType = "Indexed"
           /\ last.args.png.bitDepth = 8
           /\ last.args.png.width = last.args.width
           /\ last.args.png.height = last.args.height
           /\ Flatten(last.args.png.rows) = last.args.indices
           /\ last.status = "err"
           /\ last.msg = "Unsupported PNG color type"
           /\ last.out = NoOut

\* a valid image of two rows was encoded and the decode of it was refused
C1_Witness ==
    /\ DecodedEncoded
    /\ ValidEncodeInput(last.args)
    /\ last.args.height = 2
    /\ last.args.indices = <<1, 0>>
    /\ last.status = "err"

\* the table the spec describes: the alphas of the leading entries, up to
\* and excluding the first opaque entry at or after the first non-opaque one
ClaimedTransparency(alphas) ==
    LET nonOpaque == {i \in 1..Len(alphas) : alphas[i] < 255}
        first == CHOOSE i \in nonOpaque : \A j \in nonOpaque : i <= j
        opaqueAfter == {i \in 1..Len(alphas) : i >= first /\ alphas[i] = 255}
        stop == IF opaqueAfter = {} THEN Len(alphas) + 1
                ELSE CHOOSE i \in opaqueAfter : \A j \in opaqueAfter : i <= j
    IN  IF nonOpaque = {} THEN <<>> ELSE SubSeq(alphas, 1, stop - 1)

\* C2: the transparency table written is a prefix of the palette's alphas:
\* its k-th value is the alpha of entry k, and it stops before the first
\* opaque entry at or after the first non-opaque one.
C2_TransparencyIsAlphaPrefix ==
    (EncodeReturned /\ IsPixelPalette(last.args.palette))
        => /\ Len(last.out.png.trns) <= Len(last.args.palette)
           /\ \A k \in 1..Len(last.out.png.trns) :
                  last.out.png.trns[k] = RawAlphas(last.args.palette)[k]
           /\ last.out.png.trns = ClaimedTransparency(RawAlphas(last.args.palette))

\* a non-opaque entry comes after an opaque one
HasTransparencyAfterOpaque(palette) ==
    \E i, j \in 1..Len(palette) :
        i < j /\ RawAlphas(palette)[i] = 255 /\ RawAlphas(palette)[j] < 255

\* C3: a palette with a non-opaque entry after an opaque one is refused; no
\* bytes are returned for it.
C3_ScatteredTransparencyRefused ==
    (last.op = "encode" /\ IsPixelPalette(last.args.palette)
       /\ HasTransparencyAfterOpaque(last.args.palette))
        => (last.status # "ok" /\ last.out = NoOut)

\* C4: encode_palette_to_png fails, and returns no bytes, when an index is
\* not below the palette length and when the palette has more than 256
\* entries.
C4_BadIndexOrPaletteRefused ==
    (last.op = "encode"
       /\ (\/ \E i \in 1..Len(last.args.indices) :
                 last.args.indices[i] >= Len(last.args.palette)
           \/ Len(last.args.palette) > 256))
        => (last.status # "ok" /\ last.out = NoOut)

Remapping == {"remapImage", "getPaletteIndices"}

\* C5: remapImage and getPaletteIndices fail when the remap step yields an
\* index that is not below the palette length; what they return is one entry
\* for every pixel, each the palette's.
C5_OutOfRangeIndexFails ==
    (last.op \in Remapping)
        => /\ (\E i \in 1..Len(last.remapped) : last.remapped[i] >= Len(result.palette))
                  => last.status # "ok"
           /\ last.status = "ok"
                  => /\ Len(last.remapped) = last.args.width * last.args.height
                     /\ \A i \in 1..Len(last.remapped) :
                            last.remapped[i] < Len(result.palette)

\* the arguments outside the documented ranges: speed 1-10, quality
\* min <= target <= 100, max colours 1-256, posterization a whole 0-4
OutsideDocumentedRange ==
    \/ last.op = "setSpeed" /\ last.args.a \notin 1..10
    \/ last.op = "setQuality" /\ ~(last.args.a <= last.args.b /\ last.args.b <= 100)
    \/ last.op = "setMaxColors" /\ last.args.a \notin 1..256
    \/ last.op = "setPosterization"
         /\ (last.args.f.nan \/ last.args.f.tenths \notin {0, 10, 20, 30, 40})

\* C6: every setter fails for an argument outside its documented range; none
\* succeeds by putting a valid value in its place.
C6_SettersRefuseInvalid == OutsideDocumentedRange => last.status # "ok"

\* C7: a call fails when the buffer is not as long as width * height (* 4)
\* really is; a product beyond 32 bits must not wrap so that a shorter
\* buffer is taken as consistent.
C7_LengthCheckedAgainstTrueProduct ==
    (last.op = "encode"
       /\ ~LenIsProduct(Len(last.args.indices), last.args.width, last.args.height))
        => last.status # "ok"

NoAlphaChannel == {"Rgb", "Grayscale"}
GrayFormats == {"Grayscale", "GrayscaleAlpha"}

\* C8: whenever decode_png_to_rgba succeeds, the buffer holds width * height
\* pixels of 4 bytes for the width and height returned, alpha is 255 for the
\* formats without alpha, and R = G = B for the grayscale formats.
C8_DecodedIsWholeImage ==
    (last.op = "decode" /\ last.status = "ok")
        => /\ last.out.width = last.args.png.width
           /\ last.out.height = last.args.png.height
           /\ Len(last.out.data) = last.out.width * last.out.height * 4
           /\ last.args.png.colorType \in NoAlphaChannel
                  => \A i \in 1..(Len(last.out.data) \div 4) : last.out.data[4 * i] = 255
           /\ last.args.png.colorType \in GrayFormats
                  => \A i \in 1..(Len(last.out.data) \div 4) :
                         /\ last.out.data[4 * i - 3] = last.out.data[4 * i - 2]
                         /\ last.out.data[4 * i - 2] = last.out.data[4 * i - 1]

SupportedFormats == {"Rgba", "Rgb", "GrayscaleAlpha", "Grayscale"}

\* C9: decode_png_to_rgba fails for every input whose pixel format is not
\* truecolor+alpha, truecolor, grayscale+alpha or grayscale: no buffer is
\* returned, nothing is expanded, and a file whose frame could be read is
\* refused as an unsupported colour type.
C9_OtherFormatsRefused ==
    (last.op = "decode" /\ last.args.png.colorType \notin SupportedFormats)
        => /\ last.status = "err"
           /\ last.out = NoOut
           /\ (ReadInfoOk(last.args.png) /\ NextFrameOk(last.args.png))
                  => last.msg = "Unsupported PNG color type"

\* a complete indexed file from elsewhere was refused
C9_Witness ==
    /\ last.op = "decode"
    /\ ~last.args.fromEncode
    /\ last.args.png.colorType = "Indexed"
    /\ last.args.png.bitDepth = 4
    /\ NextFrameOk(last.args.png)
    /\ last.msg = "Unsupported PNG color type"

\* entry 0 has alpha 128 and every other entry is opaque
OnlyFirstHalfTransparent(alphas) ==
    /\ Len(alphas) >= 1
    /\ alphas[1] = 128
    /\ \A i \in 2..Len(alphas) : alphas[i] = 255

\* C10: the transparency chunk is left out exactly when every palette entry
\* is opaque, and a palette whose entry 0 has alpha 128 and whose other
\* entries are opaque gets the table <<128>>.
C10_TransparencyChunkPresence ==
    (EncodeReturned /\ IsPixelPalette(last.args.palette))
        => /\ ~last.out.png.hasTrns
                  <=> \A i \in 1..Len(last.args.palette) :
                          RawAlphas(last.args.palette)[i] = 255
           /\ ~last.out.png.hasTrns => last.out.png.trns = <<>>
           /\ OnlyFirstHalfTransparent(RawAlphas(last.args.palette))
                  => (last.out.png.hasTrns /\ last.out.png.trns = <<128>>)

\* a palette of more than one entry, only the first not opaque, was encoded
C10_Witness ==
    /\ EncodeReturned
    /\ Len(last.args.palette) > 1
    /\ OnlyFirstHalfTransparent(RawAlphas(last.args.palette))
    /\ last.out.png.trns = <<128>>

====
